---- MODULE Spec2Model ----
(***************************************************************************)
(* Model of compute_viewshed_parallel_v2.py: one job of a batched GRASS    *)
(* viewshed computation.  The job splits the list of observer points over  *)
(* njobs jobs (get_viewpoints_subset), runs one r.viewshed process per     *)
(* point of its share through a ParallelModuleQueue of ncores slots        *)
(* (parallel_process), and merges the per-point rasters into one count     *)
(* raster that it exports (create_output_file).                            *)
(*                                                                         *)
(* A point is modelled by its id (site[2]); the coordinates site[0] and    *)
(* site[1] only travel to r.viewshed.  A raster or directory name is a     *)
(* pair <<prefix, id>>.  GRASS commands started with gscript.run_command   *)
(* raise CalledModuleError when the command fails; a pygrass Module that   *)
(* was started by ParallelModuleQueue.put raises it from Module.wait().    *)
(*                                                                         *)
(* Spec is the run of one job; SpecJobs adds a second job of the same run  *)
(* in the same mapset; SpecRerun starts the job again after a failed run;  *)
(* SpecPartition and SpecSeries apply get_viewpoints_subset and r.series   *)
(* method=count to inputs drawn from bounded sets.                         *)
(***************************************************************************)
EXTENDS Integers, Sequences, FiniteSets, TLC

\* Bounds of the program run (Spec).
MaxPoints == 4
MaxJobs == 3
MaxCores == 3
\* Bounds of the partition function's inputs (SpecPartition).
MaxTotalPoints == 10
MaxJobCount == 5

VARIABLES
    viewpoints_exists,  \* os.path.exists(args.viewpoints)
    elevations_exists,  \* os.path.exists(args.elevations)
    viewpoints_file,    \* the point ids stored in the viewpoints file, in order
    args,               \* parsed command line: njobs, job_index, ncores (0: omitted)
    njobs,              \* number of jobs
    job_index,          \* 0-based index of this job
    ncores,             \* concurrency limit
    pc,                 \* position of the orchestrating process
    error,              \* the uncaught exception that ended the process, if any
    grass_init,         \* gsetup.init has run
    all_points,         \* self.all_points
    points,             \* the subset of this job
    vshed_list,         \* names of the per-point rasters, in submission order
    site_i,             \* number of points the for loop of parallel_process has taken
    queue_list,         \* ParallelModuleQueue._list[0 .. _proc_count-1]
    wait_k,             \* position of ParallelModuleQueue.wait in _list (1-based)
    proc,               \* r.viewshed process of each point id
    rasters,            \* raster maps existing in the mapset
    dirs,               \* scratch directories existing under TMPDIR
    exported,           \* output files written by r.out.gdal (by 1-based job number)
    slices,             \* SpecPartition: the slices of job 0, 1, ... computed so far
    starts,             \* SpecPartition: their start offsets
    merged,             \* the rasters the merged raster output_name was computed from
    file_content,       \* exported files: pairs <<1-based job number, content>>
    runs,               \* SpecRerun: number of times the job has been started
    leftover,           \* SpecRerun: what the failed run before this one left behind
    other,              \* SpecJobs: another job of the same run, in the same mapset
    series_input,       \* SpecSeries: the per-point rasters, as a list of cell maps
    series_order,       \* SpecSeries: the order in which r.series is given them
    series_out          \* SpecSeries: the raster r.series computed, <<>> before

vars == <<viewpoints_exists, elevations_exists, viewpoints_file, args, njobs,
          job_index, ncores, pc, error, grass_init, all_points, points,
          vshed_list, site_i, queue_list, wait_k, proc, rasters, dirs,
          exported, slices, starts, merged, file_content, runs, leftover, other,
          series_input, series_order, series_out>>

inputs == <<viewpoints_exists, elevations_exists, viewpoints_file, args>>
params == <<njobs, job_index, ncores>>
queue == <<site_i, queue_list, wait_k>>
partition_vars == <<slices, starts>>
contents == <<merged, file_content>>
restart == <<runs, leftover>>
env == <<restart, other>>
series_vars == <<series_input, series_order, series_out>>

----------------------------------------------------------------------------
\* Helpers

Min(a, b) == IF a < b THEN a ELSE b

RECURSIVE sum(_)
\* Python's sum() of a list of integers.
sum(lst) == IF lst = <<>> THEN 0 ELSE Head(lst) + sum(Tail(lst))

\* Python's lst[a:b] for 0 <= a <= b: out-of-range ends are clamped.
PySlice(lst, a, b) == SubSeq(lst, a + 1, Min(b, Len(lst)))

\* The points 1..n in file order.
PointList(n) == [k \in 1..n |-> k]

Ids == 1..MaxPoints

\* Mutant: the raster name does not take up the point's id.
vshed_name_fixed(ptname) == <<"vshed", 0>>

\* "vshed_%s" % ptname and os.path.join(TMPDIR, "viewshed_%s" % ptname)
vshed_name(ptname) == <<"vshed", ptname>>
tmpdir_name(ptname) == <<"viewshed", ptname>>
\* self.elevation_name and self.output_name, one per run
elevation_name == <<"elevation", 0>>
output_name == <<"output", 0>>

----------------------------------------------------------------------------
\* get_viewpoints_subset

\* pts_per_job = num_pts / self.njobs   (Python 2 integer division)
pts_per_job(num_pts, n_jobs) == num_pts \div n_jobs

RECURSIVE distribute(_, _, _)
\* for pt in xrange(stop): job_lst[pt % len(job_lst)] += 1, from pt on
distribute(lst, pt, stop) ==
    IF pt >= stop THEN lst
    ELSE distribute([lst EXCEPT ![(pt % Len(lst)) + 1] = @ + 1], pt + 1, stop)

\* Mutant: the whole remainder goes to job 0.
job_lst_lump(num_pts, n_jobs) ==
    [j \in 1..n_jobs |-> pts_per_job(num_pts, n_jobs)
                          + (IF j = 1 THEN num_pts % n_jobs ELSE 0)]

\* Mutant: the remainder is handed out from the last job downwards.
job_lst_from_last(num_pts, n_jobs) ==
    [j \in 1..n_jobs |-> pts_per_job(num_pts, n_jobs)
                          + (IF j > n_jobs - (num_pts % n_jobs) THEN 1 ELSE 0)]

\* job_lst after the remainder loop
job_lst(num_pts, n_jobs) ==
    distribute([j \in 1..n_jobs |-> pts_per_job(num_pts, n_jobs)], 0, num_pts % n_jobs)

\* Mutant: the start is taken as job_index times the base share.
start_index_base(lst, j_index) ==
    j_index * (IF lst = <<>> THEN 0 ELSE lst[Len(lst)])

\* start_index = sum(job_lst[0:self.job_index])
start_index(lst, j_index) == sum(PySlice(lst, 0, j_index))

\* this_job_count = job_lst[self.job_index]
this_job_count(lst, j_index) == lst[j_index + 1]

\* return self.all_points[start_index:start_index + this_job_count]
get_viewpoints_subset(pts, n_jobs, j_index) ==
    LET lst == job_lst(Len(pts), n_jobs)
        start == start_index(lst, j_index)
    IN  PySlice(pts, start, start + this_job_count(lst, j_index))

----------------------------------------------------------------------------
\* The program run

NoError == [type |-> "none", at |-> "none", ptname |-> 0]

\* An uncaught exception: the traceback is printed and the process exits with
\* status 1.  Processes it started keep running.
Raise(type, at, ptname) ==
    /\ pc' = "failed"
    /\ error' = [type |-> type, at |-> at, ptname |-> ptname]

files == <<rasters, dirs, exported>>

\* The other job of SpecJobs: not started.
NoOther == [pc |-> "absent", job_index |-> 0, points |-> <<>>, site_i |-> 0,
            vshed_list |-> <<>>, proc |-> "none"]

\* State at the start of __main__, defaults set (ncores = 1, njobs = 1,
\* job_index = 0).  The command line gives a 1-based job index within njobs.
Init ==
    /\ viewpoints_exists \in BOOLEAN
    /\ elevations_exists \in BOOLEAN
    /\ viewpoints_file \in {PointList(n) : n \in 0..MaxPoints}
    /\ (~viewpoints_exists => viewpoints_file = <<>>)
    /\ args \in [njobs : 0..MaxJobs, job_index : 0..MaxJobs, ncores : 0..MaxCores]
    /\ args.job_index <= (IF args.njobs = 0 THEN 1 ELSE args.njobs)
    /\ njobs = 1
    /\ job_index = 0
    /\ ncores = 1
    /\ pc = "main"
    /\ error = NoError
    /\ grass_init = FALSE
    /\ all_points = <<>>
    /\ points = <<>>
    /\ vshed_list = <<>>
    /\ site_i = 0
    /\ queue_list = <<>>
    /\ wait_k = 0
    /\ proc = [id \in Ids |-> "none"]
    /\ rasters = {}
    /\ dirs = {}
    /\ exported = {}
    /\ slices = <<>>
    /\ starts = <<>>
    /\ merged = {}
    /\ file_content = {}
    /\ runs = 1
    /\ leftover = {}
    /\ other = NoOther
    /\ series_input = <<>>
    /\ series_order = <<>>
    /\ series_out = <<>>

\* if args.ncores: ... if args.njobs: ... if args.job_index: ...
\* (an omitted argument is None and, like 0, false)
parse_args ==
    /\ pc = "main"
    /\ ncores' = (IF args.ncores # 0 THEN args.ncores ELSE ncores)
    /\ njobs' = (IF args.njobs # 0 THEN args.njobs ELSE njobs)
    /\ job_index' = (IF args.job_index # 0 THEN args.job_index - 1 ELSE job_index)
    /\ pc' = "check_viewpoints"
    /\ UNCHANGED <<inputs, error, grass_init, all_points, points, vshed_list,
                   queue, proc, files, partition_vars, contents, env, series_vars>>

\* check_file(testfile): the test reads args.viewpoints whatever testfile is;
\* sys.stderr is a file object, so calling it raises TypeError.
check_file(testfile, at, next) ==
    /\ pc = at
    /\ IF ~viewpoints_exists
       THEN Raise("TypeError", "check_file", 0)
       ELSE pc' = next /\ UNCHANGED error
    /\ UNCHANGED <<inputs, params, grass_init, all_points, points, vshed_list,
                   queue, proc, files, partition_vars, contents, env, series_vars>>

check_viewpoints == check_file("viewpoints", "check_viewpoints", "check_elevations")

check_elevations == check_file("elevations", "check_elevations", "gsetup")

\* os.makedirs of the output directory (errors ignored) and gsetup.init
gsetup_init ==
    /\ pc = "gsetup"
    /\ grass_init' = TRUE
    /\ pc' = "v_import"
    /\ UNCHANGED <<inputs, params, error, all_points, points, vshed_list,
                   queue, proc, files, partition_vars, contents, env, series_vars>>

\* __init__: v.import of the viewpoints file and v.out.ascii into all_points
load_viewpoints ==
    /\ pc = "v_import"
    /\ IF ~viewpoints_exists
       THEN Raise("CalledModuleError", "v.import", 0) /\ UNCHANGED all_points
       ELSE /\ all_points' = viewpoints_file
            /\ pc' = "g_remove_elevation"
            /\ UNCHANGED error
    /\ UNCHANGED <<inputs, params, grass_init, points, vshed_list,
                   queue, proc, files, partition_vars, contents, env, series_vars>>

\* Mutant: the elevation raster is not removed before the import.
remove_elevation_skipped ==
    /\ pc = "g_remove_elevation"
    /\ pc' = "r_in_gdal"
    /\ UNCHANGED <<inputs, params, error, grass_init, all_points, points,
                   vshed_list, queue, proc, files, partition_vars, contents,
                   env, series_vars>>

\* __init__: g.remove of the elevation raster inside try/except
remove_elevation ==
    /\ pc = "g_remove_elevation"
    /\ rasters' = rasters \ {elevation_name}
    /\ pc' = "r_in_gdal"
    /\ UNCHANGED <<inputs, params, error, grass_init, all_points, points,
                   vshed_list, queue, proc, dirs, exported, partition_vars, contents, env, series_vars>>

\* __init__: r.in.gdal of the elevation file, then g.region.  r.in.gdal is
\* run without overwrite: it fails when the raster exists in the mapset.
import_elevation ==
    /\ pc = "r_in_gdal"
    /\ IF ~elevations_exists \/ elevation_name \in rasters
       THEN Raise("CalledModuleError", "r.in.gdal", 0) /\ UNCHANGED rasters
       ELSE /\ rasters' = rasters \cup {elevation_name}
            /\ pc' = "get_subset"
            /\ UNCHANGED error
    /\ UNCHANGED <<inputs, params, grass_init, all_points, points,
                   vshed_list, queue, proc, dirs, exported, partition_vars, contents, env, series_vars>>

\* calc_viewpoints: points = self.get_viewpoints_subset()
calc_get_subset ==
    /\ pc = "get_subset"
    /\ points' = get_viewpoints_subset(all_points, njobs, job_index)
    /\ pc' = "for_site"
    /\ UNCHANGED <<inputs, params, error, grass_init, all_points, vshed_list,
                   queue, proc, files, partition_vars, contents, env, series_vars>>

----------------------------------------------------------------------------
\* parallel_process

\* Mutant: the queue is given one slot more than ncores.
nprocs_plus_one == ncores + 1

\* queue = ParallelModuleQueue(nprocs=self.ncores)
nprocs == ncores

\* One pass of "for site in points": the scratch directory is made if absent,
\* the raster name is appended to vshed_list and the module is put on the
\* queue.  put() starts the process at once and, when the last slot has been
\* filled, calls the queue's wait() before it returns.
for_site ==
    /\ pc = "for_site"
    /\ site_i < Len(points)
    /\ LET ptname == points[site_i + 1]
       IN  /\ dirs' = dirs \cup {tmpdir_name(ptname)}
           /\ vshed_list' = Append(vshed_list, vshed_name(ptname))
           /\ queue_list' = Append(queue_list, ptname)
           /\ proc' = [proc EXCEPT ![ptname] = "running"]
    /\ site_i' = site_i + 1
    /\ IF Len(queue_list) + 1 = nprocs
       THEN pc' = "put_wait" /\ wait_k' = 1
       ELSE pc' = "for_site" /\ UNCHANGED wait_k
    /\ UNCHANGED <<inputs, params, error, grass_init, all_points, points,
                   rasters, exported, partition_vars, contents, env, series_vars>>

\* Mutant: the loop is left without the call of queue.wait().
queue_wait_skipped ==
    /\ pc = "for_site"
    /\ site_i = Len(points)
    /\ pc' = "print_timing"
    /\ UNCHANGED <<inputs, params, error, grass_init, all_points, points,
                   vshed_list, queue, proc, files, partition_vars, contents, env, series_vars>>

\* The loop is over: queue.wait()
queue_wait ==
    /\ pc = "for_site"
    /\ site_i = Len(points)
    /\ pc' = "queue_wait"
    /\ wait_k' = 1
    /\ UNCHANGED <<inputs, params, error, grass_init, all_points, points,
                   vshed_list, site_i, queue_list, proc, files, partition_vars, contents, env, series_vars>>

\* Mutant: the exit status of the process is not looked at.
module_wait_unchecked ==
    /\ pc \in {"put_wait", "queue_wait"}
    /\ wait_k <= Len(queue_list)
    /\ proc[queue_list[wait_k]] # "running"
    /\ wait_k' = wait_k + 1
    /\ UNCHANGED <<inputs, params, pc, error, grass_init, all_points, points,
                   vshed_list, site_i, queue_list, proc, files, partition_vars, contents, env, series_vars>>

\* ParallelModuleQueue.wait, one module of _list: Module.wait() blocks until
\* the process has ended and raises CalledModuleError, whose text holds the
\* command line with output=vshed_<ptname>, when it ended with an error.
\* Nothing in parallel_process catches it.
module_wait ==
    /\ pc \in {"put_wait", "queue_wait"}
    /\ wait_k <= Len(queue_list)
    /\ LET ptname == queue_list[wait_k]
       IN  /\ proc[ptname] # "running"
           /\ IF proc[ptname] = "failed"
              THEN Raise("CalledModuleError", "r.viewshed", ptname) /\ UNCHANGED wait_k
              ELSE wait_k' = wait_k + 1 /\ UNCHANGED <<pc, error>>
    /\ UNCHANGED <<inputs, params, grass_init, all_points, points,
                   vshed_list, site_i, queue_list, proc, files, partition_vars, contents, env, series_vars>>

\* ParallelModuleQueue.wait after its loop: the slots are emptied and the
\* caller goes on (put() back into the for loop, queue.wait() to the timing).
queue_wait_return ==
    /\ pc \in {"put_wait", "queue_wait"}
    /\ wait_k > Len(queue_list)
    /\ queue_list' = <<>>
    /\ wait_k' = 0
    /\ pc' = (IF pc = "put_wait" THEN "for_site" ELSE "print_timing")
    /\ UNCHANGED <<inputs, params, error, grass_init, all_points, points,
                   vshed_list, site_i, proc, files, partition_vars, contents, env, series_vars>>

\* A running r.viewshed process ends, whatever the orchestrating process is
\* doing: with its raster written (overwrite=True), or with an error.
viewshed_exit(ptname, ok) ==
    /\ proc[ptname] = "running"
    /\ proc' = [proc EXCEPT ![ptname] = IF ok THEN "done" ELSE "failed"]
    /\ rasters' = (IF ok THEN rasters \cup {vshed_name(ptname)} ELSE rasters)
    /\ UNCHANGED <<inputs, params, pc, error, grass_init, all_points, points,
                   vshed_list, queue, dirs, exported, partition_vars, contents, env, series_vars>>

\* print_timing: avg_time = dt / npts * self.ncores, with npts = len(points)
print_timing ==
    /\ pc = "print_timing"
    /\ IF Len(points) = 0
       THEN Raise("ZeroDivisionError", "print_timing", 0)
       ELSE pc' = "r_series" /\ UNCHANGED error
    /\ UNCHANGED <<inputs, params, grass_init, all_points, points,
                   vshed_list, queue, proc, files, partition_vars, contents, env, series_vars>>

----------------------------------------------------------------------------
\* create_output_file

\* Mutant: a failure of r.series is not raised (errors are ignored).
r_series_unchecked(ok) ==
    /\ pc = "r_series"
    /\ IF ok /\ vshed_list # <<>> /\ \A k \in 1..Len(vshed_list) : vshed_list[k] \in rasters
       THEN /\ rasters' = rasters \cup {output_name}
            /\ merged' = {vshed_list[k] : k \in 1..Len(vshed_list)}
       ELSE UNCHANGED <<rasters, merged>>
    /\ pc' = "g_remove"
    /\ UNCHANGED <<inputs, params, error, grass_init, all_points, points, vshed_list,
                   queue, proc, dirs, exported, partition_vars, file_content,
                   env, series_vars>>

\* r.series reads every raster of vshed_list; it fails when one is missing or
\* none is named, and it may fail for reasons outside the program.
r_series(ok) ==
    /\ pc = "r_series"
    /\ IF ok /\ vshed_list # <<>> /\ \A k \in 1..Len(vshed_list) : vshed_list[k] \in rasters
       THEN /\ rasters' = rasters \cup {output_name}
            /\ merged' = {vshed_list[k] : k \in 1..Len(vshed_list)}
            /\ pc' = "g_remove"
            /\ UNCHANGED error
       ELSE Raise("CalledModuleError", "r.series", 0) /\ UNCHANGED <<rasters, merged>>
    /\ UNCHANGED <<inputs, params, grass_init, all_points, points, vshed_list,
                   queue, proc, dirs, exported, partition_vars, file_content,
                   env, series_vars>>

\* g.remove -f of the rasters of vshed_list
g_remove ==
    /\ pc = "g_remove"
    /\ rasters' = rasters \ {vshed_list[k] : k \in 1..Len(vshed_list)}
    /\ pc' = "r_out_gdal"
    /\ UNCHANGED <<inputs, params, error, grass_init, all_points, points,
                   vshed_list, queue, proc, dirs, exported, partition_vars, contents, env, series_vars>>

\* Mutant: the file is numbered with the 0-based job index.
ofile_zero_based == job_index

\* ofile = self.output_file + '_' + str(self.job_index + 1) + '.grd': the files
\* of one run differ in the job number only
ofile == job_index + 1

\* r.out.gdal of the merged raster, with the content it has at this moment,
\* to ofile
r_out_gdal(ok) ==
    /\ pc = "r_out_gdal"
    /\ IF ok /\ output_name \in rasters
       THEN /\ exported' = exported \cup {ofile}
            /\ file_content' = {f \in file_content : f[1] # ofile} \cup {<<ofile, merged>>}
            /\ pc' = "report"
            /\ UNCHANGED error
       ELSE Raise("CalledModuleError", "r.out.gdal", 0)
            /\ UNCHANGED <<exported, file_content>>
    /\ UNCHANGED <<inputs, params, grass_init, all_points, points, vshed_list,
                   queue, proc, rasters, dirs, partition_vars, merged, env,
                   series_vars>>

\* the closing message: (etime - stime) / len(vshed_list)
report_timing ==
    /\ pc = "report"
    /\ IF Len(vshed_list) = 0
       THEN Raise("ZeroDivisionError", "create_output_file", 0)
       ELSE pc' = "done" /\ UNCHANGED error
    /\ UNCHANGED <<inputs, params, grass_init, all_points, points,
                   vshed_list, queue, proc, files, partition_vars, contents, env, series_vars>>

----------------------------------------------------------------------------

Next ==
    \/ parse_args
    \/ check_viewpoints
    \/ check_elevations
    \/ gsetup_init
    \/ load_viewpoints
    \/ remove_elevation
    \/ import_elevation
    \/ calc_get_subset
    \/ for_site
    \/ queue_wait
    \/ module_wait
    \/ queue_wait_return
    \/ \E ptname \in Ids, ok \in BOOLEAN : viewshed_exit(ptname, ok)
    \/ print_timing
    \/ \E ok \in BOOLEAN : r_series(ok)
    \/ g_remove
    \/ \E ok \in BOOLEAN : r_out_gdal(ok)
    \/ report_timing

Spec == Init /\ [][Next]_vars

----------------------------------------------------------------------------
\* The partition function on its own: for a point list and a job count, the
\* slices of job 0, 1, ..., njobs-1 are computed one after the other.

InitPartition ==
    /\ viewpoints_exists = TRUE
    /\ elevations_exists = TRUE
    /\ args = [njobs |-> 0, job_index |-> 0, ncores |-> 0]
    /\ all_points \in {PointList(n) : n \in 0..MaxTotalPoints}
    /\ viewpoints_file = all_points
    /\ njobs \in 1..MaxJobCount
    /\ job_index = 0
    /\ ncores = 1
    /\ pc = "partition"
    /\ error = NoError
    /\ grass_init = FALSE
    /\ points = <<>>
    /\ vshed_list = <<>>
    /\ site_i = 0
    /\ queue_list = <<>>
    /\ wait_k = 0
    /\ proc = [id \in Ids |-> "none"]
    /\ rasters = {}
    /\ dirs = {}
    /\ exported = {}
    /\ slices = <<>>
    /\ starts = <<>>
    /\ merged = {}
    /\ file_content = {}
    /\ runs = 1
    /\ leftover = {}
    /\ other = NoOther
    /\ series_input = <<>>
    /\ series_order = <<>>
    /\ series_out = <<>>

\* get_viewpoints_subset for the next job index
partition ==
    /\ pc = "partition"
    /\ Len(slices) < njobs
    /\ job_index' = Len(slices)
    /\ points' = get_viewpoints_subset(all_points, njobs, job_index')
    /\ slices' = Append(slices, points')
    /\ starts' = Append(starts, start_index(job_lst(Len(all_points), njobs), job_index'))
    /\ UNCHANGED <<inputs, njobs, ncores, pc, error, grass_init, all_points,
                   vshed_list, queue, proc, files, contents, env, series_vars>>

NextPartition == partition

SpecPartition == InitPartition /\ [][NextPartition]_vars

----------------------------------------------------------------------------
\* Two jobs of one run in the same mapset.  The second job is the same
\* program, started with the same files and job count, another job index and
\* ncores = 1; it is followed through the steps that touch what the jobs
\* share: the rasters of the mapset, the scratch directories, the output
\* files.

this_job == <<params, pc, error, grass_init, all_points, points, vshed_list,
              queue, proc>>

InitJobs == Init

\* __main__ up to the v.import of __init__, with job index j + 1
other_start(j) ==
    /\ other.pc = "absent"
    /\ pc # "main"
    /\ j \in 0..(njobs - 1)
    /\ j # job_index
    /\ viewpoints_exists
    /\ other' = [other EXCEPT !.pc = "g_remove_elevation", !.job_index = j]
    /\ UNCHANGED <<inputs, this_job, files, partition_vars, contents, restart,
                   series_vars>>

\* __init__: g.remove of the elevation raster
other_remove_elevation ==
    /\ other.pc = "g_remove_elevation"
    /\ rasters' = rasters \ {elevation_name}
    /\ other' = [other EXCEPT !.pc = "r_in_gdal"]
    /\ UNCHANGED <<inputs, this_job, dirs, exported, partition_vars, contents,
                   restart, series_vars>>

\* __init__: r.in.gdal; calc_viewpoints: get_viewpoints_subset
other_import_elevation ==
    /\ other.pc = "r_in_gdal"
    /\ IF ~elevations_exists \/ elevation_name \in rasters
       THEN other' = [other EXCEPT !.pc = "failed"] /\ UNCHANGED rasters
       ELSE /\ rasters' = rasters \cup {elevation_name}
            /\ other' = [other EXCEPT
                  !.pc = "for_site",
                  !.points = get_viewpoints_subset(viewpoints_file, njobs, other.job_index)]
    /\ UNCHANGED <<inputs, this_job, dirs, exported, partition_vars, contents,
                   restart, series_vars>>

\* parallel_process: one pass of the for loop; with one slot put() waits
other_for_site ==
    /\ other.pc = "for_site"
    /\ other.site_i < Len(other.points)
    /\ LET ptname == other.points[other.site_i + 1]
       IN  /\ dirs' = dirs \cup {tmpdir_name(ptname)}
           /\ other' = [other EXCEPT
                 !.pc = "put_wait",
                 !.site_i = @ + 1,
                 !.vshed_list = Append(@, vshed_name(ptname)),
                 !.proc = "running"]
    /\ UNCHANGED <<inputs, this_job, rasters, exported, partition_vars, contents,
                   restart, series_vars>>

\* the r.viewshed process of the second job ends
other_viewshed_exit(ok) ==
    /\ other.proc = "running"
    /\ other' = [other EXCEPT !.proc = IF ok THEN "done" ELSE "failed"]
    /\ rasters' = (IF ok THEN rasters \cup {other.vshed_list[other.site_i]} ELSE rasters)
    /\ UNCHANGED <<inputs, this_job, dirs, exported, partition_vars, contents,
                   restart, series_vars>>

\* Module.wait inside put()
other_module_wait ==
    /\ other.pc = "put_wait"
    /\ other.proc \in {"done", "failed"}
    /\ other' = [other EXCEPT !.pc = IF other.proc = "failed" THEN "failed" ELSE "for_site",
                              !.proc = "none"]
    /\ UNCHANGED <<inputs, this_job, files, partition_vars, contents, restart,
                   series_vars>>

\* queue.wait() on the empty queue and print_timing
other_print_timing ==
    /\ other.pc = "for_site"
    /\ other.site_i = Len(other.points)
    /\ other' = [other EXCEPT !.pc = IF Len(other.points) = 0 THEN "failed" ELSE "r_series"]
    /\ UNCHANGED <<inputs, this_job, files, partition_vars, contents, restart,
                   series_vars>>

\* create_output_file: r.series into output_name
other_r_series(ok) ==
    /\ other.pc = "r_series"
    /\ LET lst == other.vshed_list
       IN  IF ok /\ \A k \in 1..Len(lst) : lst[k] \in rasters
           THEN /\ rasters' = rasters \cup {output_name}
                /\ merged' = {lst[k] : k \in 1..Len(lst)}
                /\ other' = [other EXCEPT !.pc = "g_remove"]
           ELSE /\ other' = [other EXCEPT !.pc = "failed"]
                /\ UNCHANGED <<rasters, merged>>
    /\ UNCHANGED <<inputs, this_job, dirs, exported, partition_vars, file_content,
                   restart, series_vars>>

\* create_output_file: g.remove of its per-point rasters
other_g_remove ==
    /\ other.pc = "g_remove"
    /\ rasters' = rasters \ {other.vshed_list[k] : k \in 1..Len(other.vshed_list)}
    /\ other' = [other EXCEPT !.pc = "r_out_gdal"]
    /\ UNCHANGED <<inputs, this_job, dirs, exported, partition_vars, contents,
                   restart, series_vars>>

\* create_output_file: r.out.gdal of output_name to its own file
other_r_out_gdal(ok) ==
    /\ other.pc = "r_out_gdal"
    /\ LET file == other.job_index + 1
       IN  IF ok /\ output_name \in rasters
           THEN /\ exported' = exported \cup {file}
                /\ file_content' = {f \in file_content : f[1] # file} \cup {<<file, merged>>}
                /\ other' = [other EXCEPT !.pc = "done"]
           ELSE /\ other' = [other EXCEPT !.pc = "failed"]
                /\ UNCHANGED <<exported, file_content>>
    /\ UNCHANGED <<inputs, this_job, rasters, dirs, partition_vars, merged, restart,
                   series_vars>>

NextJobs ==
    \/ Next
    \/ \E j \in 0..(MaxJobs - 1) : other_start(j)
    \/ other_remove_elevation
    \/ other_import_elevation
    \/ other_for_site
    \/ \E ok \in BOOLEAN : other_viewshed_exit(ok)
    \/ other_module_wait
    \/ other_print_timing
    \/ \E ok \in BOOLEAN : other_r_series(ok)
    \/ other_g_remove
    \/ \E ok \in BOOLEAN : other_r_out_gdal(ok)

SpecJobs == InitJobs /\ [][NextJobs]_vars

----------------------------------------------------------------------------
\* The job is started again after a run that failed.

MaxRuns == 2

\* The failed process is gone and the processes it started have ended; the
\* same command line is run again.  The mapset, the scratch directories and
\* the output files are as the failed run left them.
rerun ==
    /\ pc = "failed"
    /\ runs < MaxRuns
    /\ \A id \in Ids : proc[id] # "running"
    /\ runs' = runs + 1
    /\ leftover' = rasters \cup dirs
    /\ njobs' = 1
    /\ job_index' = 0
    /\ ncores' = 1
    /\ pc' = "main"
    /\ error' = NoError
    /\ grass_init' = FALSE
    /\ all_points' = <<>>
    /\ points' = <<>>
    /\ vshed_list' = <<>>
    /\ site_i' = 0
    /\ queue_list' = <<>>
    /\ wait_k' = 0
    /\ proc' = [id \in Ids |-> "none"]
    /\ UNCHANGED <<inputs, files, partition_vars, contents, other, series_vars>>

NextRerun ==
    \/ Next
    \/ rerun

SpecRerun == Init /\ [][NextRerun]_vars

----------------------------------------------------------------------------
\* r.series method=count on its own.  A raster is the map of its non-NULL
\* cells: r.viewshed (run without -b) writes the vertical angle into the cells
\* that are visible and NULL into the others.

MaxRasters == 3

Cells == {<<0, 0>>, <<0, 1>>}
Angles == {90, 180}
ViewshedRasters == UNION {[S -> Angles] : S \in SUBSET Cells}

\* Mutant: method="sum", the sum of the non-NULL values.
series_method_sum(acc, map, c) ==
    IF c \in DOMAIN map THEN acc + map[c] ELSE acc

\* method="count": the number of non-NULL values
series_method(acc, map, c) ==
    IF c \in DOMAIN map THEN acc + 1 ELSE acc

RECURSIVE series_fold(_, _)
\* r.series goes through the maps of input= in the order given
series_fold(maps, acc) ==
    IF maps = <<>> THEN acc
    ELSE series_fold(Tail(maps), [c \in Cells |-> series_method(acc[c], Head(maps), c)])

\* gscript.run_command("r.series", input=','.join(vshed_list), method="count")
r_series_count(maps) == series_fold(maps, [c \in Cells |-> 0])

\* The list of rasters in the order series_order
SeriesOrdered == [k \in 1..Len(series_order) |-> series_input[series_order[k]]]

InitSeries ==
    /\ viewpoints_exists = TRUE
    /\ elevations_exists = TRUE
    /\ args = [njobs |-> 0, job_index |-> 0, ncores |-> 0]
    /\ viewpoints_file = <<>>
    /\ all_points = <<>>
    /\ njobs = 1
    /\ job_index = 0
    /\ ncores = 1
    /\ pc = "series"
    /\ error = NoError
    /\ grass_init = TRUE
    /\ points = <<>>
    /\ vshed_list = <<>>
    /\ site_i = 0
    /\ queue_list = <<>>
    /\ wait_k = 0
    /\ proc = [id \in Ids |-> "none"]
    /\ rasters = {}
    /\ dirs = {}
    /\ exported = {}
    /\ slices = <<>>
    /\ starts = <<>>
    /\ merged = {}
    /\ file_content = {}
    /\ runs = 1
    /\ leftover = {}
    /\ other = NoOther
    /\ series_input \in UNION {[1..n -> ViewshedRasters] : n \in 1..MaxRasters}
    /\ series_order = [k \in 1..Len(series_input) |-> k]
    /\ series_out = <<>>

\* The list is given in another order: two neighbours change places.
series_permute(i) ==
    /\ pc = "series"
    /\ i < Len(series_order)
    /\ series_order' = [series_order EXCEPT ![i] = series_order[i + 1],
                                            ![i + 1] = series_order[i]]
    /\ series_out' = <<>>
    /\ UNCHANGED <<inputs, params, pc, error, grass_init, all_points, points,
                   vshed_list, queue, proc, files, partition_vars, contents,
                   env, series_input>>

\* r.series on the list in its present order
series_run ==
    /\ pc = "series"
    /\ series_out = <<>>
    /\ series_out' = <<r_series_count(SeriesOrdered)>>
    /\ UNCHANGED <<inputs, params, pc, error, grass_init, all_points, points,
                   vshed_list, queue, proc, files, partition_vars, contents,
                   env, series_input, series_order>>

NextSeries ==
    \/ \E i \in 1..MaxRasters : series_permute(i)
    \/ series_run

SpecSeries == InitSeries /\ [][NextSeries]_vars

----------------------------------------------------------------------------
\* Properties of the partition (checked under SpecPartition)

RECURSIVE Concat(_)
\* Concatenation of a sequence of sequences, in order.
Concat(ss) == IF ss = <<>> THEN <<>> ELSE Head(ss) \o Concat(Tail(ss))

\* The lengths of the slices computed so far.
SliceLens == [j \in 1..Len(slices) |-> Len(slices[j])]

\* C1: the slices of job 0, 1, ..., njobs-1, concatenated in that order, are
\* the point list itself: while the jobs are gone through the concatenation
\* is the list's prefix, and after the last job it is the whole list, so
\* every point is in exactly one slice.
C1_SlicesReconstructPoints ==
    /\ Concat(slices) = SubSeq(all_points, 1, sum(SliceLens))
    /\ Len(slices) = njobs => Concat(slices) = all_points

C1_Witness ==
    /\ Len(slices) = njobs
    /\ njobs >= 3
    /\ Len(all_points) > njobs
    /\ Len(all_points) % njobs # 0
    /\ Concat(slices) = all_points

\* C2: the slice lengths of any two jobs differ by at most 1, and each is at
\* least floor(total_points / job_count) and at most ceil(total_points /
\* job_count).
C2_SlicesBalanced ==
    LET n == Len(all_points)
    IN  /\ \A i, j \in 1..Len(slices) : Len(slices[i]) - Len(slices[j]) <= 1
        /\ \A j \in 1..Len(slices) :
              /\ Len(slices[j]) >= n \div njobs
              /\ Len(slices[j]) <= (n + njobs - 1) \div njobs

C2_Witness ==
    /\ Len(slices) = njobs
    /\ Len(all_points) % njobs >= 2
    /\ \E i, j \in 1..Len(slices) : Len(slices[i]) = Len(slices[j]) + 1

\* C3: job j's slice has floor(total_points / job_count) points, plus one when
\* j < total_points mod job_count, and starts at the sum of the lengths of the
\* jobs before it; 10 points over 3 jobs give lengths 4, 3, 3 at offsets
\* 0, 4, 7, and with 2 points over 5 jobs job 3 gets the empty slice at
\* offset 2.
C3_SliceLengthAndStart ==
    LET n == Len(all_points)
        share(j) == n \div njobs + (IF j < n % njobs THEN 1 ELSE 0)
    IN  /\ \A j \in 1..Len(slices) :
              /\ Len(slices[j]) = share(j - 1)
              /\ starts[j] = sum(SubSeq(SliceLens, 1, j - 1))
              /\ slices[j] = SubSeq(all_points, starts[j] + 1, starts[j] + share(j - 1))
        /\ (n = 10 /\ njobs = 3 /\ Len(slices) = 3)
              => SliceLens = <<4, 3, 3>> /\ starts = <<0, 4, 7>>
        /\ (n = 2 /\ njobs = 5 /\ Len(slices) >= 4)
              => slices[4] = <<>> /\ starts[4] = 2

C3_Witness ==
    /\ Len(all_points) = 10
    /\ njobs = 3
    /\ SliceLens = <<4, 3, 3>>
    /\ starts = <<0, 4, 7>>

----------------------------------------------------------------------------
\* Properties of the run (checked under Spec)

Running == {id \in Ids : proc[id] = "running"}

\* parallel_process has returned normally, or is past queue.wait()
AfterBarrier ==
    \/ pc \in {"print_timing", "r_series", "g_remove", "r_out_gdal", "report", "done"}
    \/ pc = "failed" /\ error.at \in {"print_timing", "r.series", "r.out.gdal",
                                       "create_output_file"}

\* create_output_file has been entered
Aggregating ==
    \/ pc \in {"r_series", "g_remove", "r_out_gdal", "report", "done"}
    \/ pc = "failed" /\ error.at \in {"r.series", "r.out.gdal", "create_output_file"}

\* calc_viewpoints has its subset: the process is in parallel_process or in
\* create_output_file, or an error raised there has ended it
InCalcViewpoints ==
    \/ pc \in {"for_site", "put_wait", "queue_wait", "print_timing", "r_series",
               "g_remove", "r_out_gdal", "report", "done"}
    \/ pc = "failed" /\ error.at \in {"r.viewshed", "print_timing", "r.series",
                                       "r.out.gdal", "create_output_file"}

\* C4: once queue.wait() has returned, and so during the whole of
\* create_output_file, every point of the batch has been submitted and its
\* process has ended: none is queued or running.
C4_BarrierBeforeAggregation ==
    AfterBarrier =>
        /\ site_i = Len(points)
        /\ \A k \in 1..Len(points) : proc[points[k]] \in {"done", "failed"}
        /\ Running = {}

C4_Witness ==
    /\ pc = "r_series"
    /\ Len(points) >= 3
    /\ ncores = 2
    /\ \A k \in 1..Len(points) : proc[points[k]] = "done"

\* C5: when a visibility process of the batch has failed, create_output_file
\* is never entered, there is no merged raster and no file is exported.
C5_FailedBatchNotAggregated ==
    (\E id \in Ids : proc[id] = "failed") =>
        /\ ~Aggregating
        /\ output_name \notin rasters
        /\ exported = {}

C5_Witness ==
    /\ pc = "failed"
    /\ error.at = "r.viewshed"
    /\ Len(points) = 3
    /\ \E id \in Ids : proc[id] = "failed"
    /\ \E id \in Ids : proc[id] = "done" /\ vshed_name(id) \in rasters

\* C6: when the failure of a visibility process reaches the caller, no other
\* process of the batch is still running, and the error names the point
\* whose process failed.
C6_FailureAfterDrain ==
    (pc = "failed" /\ error.at = "r.viewshed") =>
        /\ Running = {}
        /\ proc[error.ptname] = "failed"

\* C7: when the export of the merged raster fails, every per-point raster of
\* vshed_list still exists.
C7_InputsKeptOnExportFailure ==
    (pc = "failed" /\ error.at = "r.out.gdal") =>
        \A k \in 1..Len(vshed_list) : vshed_list[k] \in rasters

\* C8: with an empty partition calc_viewpoints raises no error.
C8_EmptyPartitionCompletes ==
    (InCalcViewpoints /\ points = <<>>) => pc # "failed"

\* C9: when the viewpoints file or the elevation file is missing, the program
\* ends in check_file with the 'File not found' exit, before GRASS is set up,
\* points are loaded or a visibility process is started.
C9_MissingInputStopsEarly ==
    (~viewpoints_exists \/ ~elevations_exists) =>
        /\ ~grass_init
        /\ all_points = <<>>
        /\ \A id \in Ids : proc[id] = "none"
        /\ pc \notin {"main", "check_viewpoints", "check_elevations"}
              => pc = "failed" /\ error.at = "check_file"

\* C10: at most ncores visibility processes are started and not yet ended.
C10_InFlightBounded ==
    Cardinality(Running) <= ncores

C10_Witness ==
    /\ ncores >= 2
    /\ Cardinality(Running) = ncores
    /\ site_i > ncores
    /\ Len(points) > ncores

----------------------------------------------------------------------------
\* Properties of the aggregation and of the output file (checked under Spec,
\* C14 under SpecJobs)

\* C12: after calc_viewpoints has completed, neither the raster vshed_<id> nor
\* the scratch directory viewshed_<id> of any point of the batch exists.
C12_TaskArtifactsDestroyed ==
    pc = "done" =>
        \A k \in 1..Len(points) :
            /\ vshed_name(points[k]) \notin rasters
            /\ tmpdir_name(points[k]) \notin dirs

\* C13: a per-point raster that its process has written is missing only when
\* r.series has completed on the whole of vshed_list; when r.series fails,
\* every per-point raster still exists and no file is exported.
C13_DeleteOnlyAfterMerge ==
    /\ (\E k \in 1..Len(vshed_list) :
            proc[points[k]] = "done" /\ vshed_list[k] \notin rasters)
          => /\ output_name \in rasters
             /\ merged = {vshed_list[k] : k \in 1..Len(vshed_list)}
    /\ (pc = "failed" /\ error.at = "r.series")
          => /\ \A k \in 1..Len(vshed_list) : vshed_list[k] \in rasters
             /\ exported = {}
             /\ file_content = {}

C13_Witness ==
    /\ pc = "failed"
    /\ error.at = "r.series"
    /\ Len(vshed_list) >= 2
    /\ \A k \in 1..Len(vshed_list) : vshed_list[k] \in rasters
    /\ exported = {}

\* The 1-based job number given on the command line, 1 when it is omitted
JobNumber == IF args.job_index # 0 THEN args.job_index ELSE 1

\* The 1-based job number of the second job, once it is started
OtherJobNumber == IF other.pc = "absent" THEN {} ELSE {other.job_index + 1}

\* C14: the job given the 1-based index k works on the partition of 0-based
\* index k-1 and exports one file, numbered k, and no other; an omitted index
\* is k = 1, an omitted job count 1 and an omitted concurrency 1.  Two jobs of
\* one run with different indices export two different files.
C14_JobNumberAndOutputFile ==
    /\ pc # "main" =>
          /\ job_index = JobNumber - 1
          /\ njobs = (IF args.njobs # 0 THEN args.njobs ELSE 1)
          /\ ncores = (IF args.ncores # 0 THEN args.ncores ELSE 1)
    /\ InCalcViewpoints =>
          LET n == Len(all_points)
              share(j) == n \div njobs + (IF j < n % njobs THEN 1 ELSE 0)
              first == sum([j \in 1..(JobNumber - 1) |-> share(j - 1)])
          IN  /\ points = SubSeq(all_points, first + 1, first + share(JobNumber - 1))
              /\ \A id \in Ids : proc[id] # "none" => \E k \in 1..Len(points) : points[k] = id
    /\ exported \subseteq {JobNumber} \cup OtherJobNumber
    /\ \A f \in file_content : f[1] \in exported
    /\ pc = "done" =>
          /\ JobNumber \in exported
          /\ Cardinality({f \in file_content : f[1] = JobNumber}) = 1
    /\ (pc = "done" /\ other.pc = "done") =>
          /\ exported = {JobNumber} \cup OtherJobNumber
          /\ Cardinality(exported) = 2
          /\ Cardinality(file_content) = 2

C14_Witness ==
    /\ pc = "done"
    /\ args.job_index = 2
    /\ args.njobs = 3
    /\ points # <<>>
    /\ other.pc = "done"
    /\ other.job_index = 2
    /\ exported = {2, 3}

----------------------------------------------------------------------------
\* Properties of two concurrent jobs (checked under SpecJobs)

\* The visibility tasks in flight, as <<job, raster name, scratch directory>>:
\* those of this job whose process is running, and that of the second job.
TasksInFlight ==
    {<<"this", vshed_list[k], tmpdir_name(points[k])>> :
        k \in {i \in 1..site_i : proc[points[i]] = "running"}}
    \cup (IF other.proc = "running"
          THEN {<<"other", other.vshed_list[other.site_i],
                  tmpdir_name(other.points[other.site_i])>>}
          ELSE {})

\* The tasks submitted so far, by position in their job's list
TasksSubmitted ==
    {<<"this", k, vshed_list[k], tmpdir_name(points[k])>> : k \in 1..site_i}
    \cup {<<"other", k, other.vshed_list[k], tmpdir_name(other.points[k])>> :
             k \in 1..other.site_i}

\* C15: the point ids being unique, two different visibility tasks never have
\* the same raster name or the same scratch directory, be they of one job or
\* of two jobs of the run.
C15_TaskNamesDisjoint ==
    /\ \A t, u \in TasksSubmitted :
          (t[1] # u[1] \/ t[2] # u[2]) => (t[3] # u[3] /\ t[4] # u[4])
    /\ \A t, u \in TasksInFlight : t # u => (t[2] # u[2] /\ t[3] # u[3])
    /\ Cardinality(TasksInFlight) =
          Cardinality(Running) + (IF other.proc = "running" THEN 1 ELSE 0)

C15_Witness ==
    /\ Cardinality(Running) >= 2
    /\ other.proc = "running"
    /\ Cardinality(TasksInFlight) >= 3

\* The rasters of this job's partition
OwnRasters == {vshed_name(points[k]) : k \in 1..Len(points)}

\* C16: the file a job exports holds the merge of the rasters of its own
\* partition, whatever the other job does between the merge and the export.
C16_ExportOwnPartition ==
    \A f \in file_content :
        /\ f[1] = ofile => f[2] = OwnRasters
        /\ (other.pc # "absent" /\ f[1] = other.job_index + 1)
              => f[2] = {vshed_name(other.points[k]) : k \in 1..Len(other.points)}

\* C17: while a visibility process is running, the elevation raster it reads
\* is in the mapset.
C17_ElevationKeptWhileInFlight ==
    (Running # {} \/ other.proc = "running") => elevation_name \in rasters

----------------------------------------------------------------------------
\* Properties of a repeated run (checked under SpecRerun)

----------------------------------------------------------------------------
\* Properties of the merge (checked under SpecSeries)

\* The input rasters in which cell c is visible
VisibleIn(c) == {k \in 1..Len(series_input) : c \in DOMAIN series_input[k]}

\* C11: each cell of the merged raster holds the number of input rasters in
\* which the cell is visible, in whatever order the rasters are given to
\* r.series; with 3 inputs of which 2 see cell (0,0) the merged cell is 2.
C11_MergeCountsVisible ==
    series_out # <<>> =>
        /\ \A c \in Cells : series_out[1][c] = Cardinality(VisibleIn(c))
        /\ series_out[1] = r_series_count(series_input)
        /\ (Len(series_input) = 3 /\ Cardinality(VisibleIn(<<0, 0>>)) = 2)
              => series_out[1][<<0, 0>>] = 2

C11_Witness ==
    /\ series_out # <<>>
    /\ Len(series_input) = 3
    /\ series_order = <<3, 1, 2>>
    /\ VisibleIn(<<0, 0>>) = {1, 3}
    /\ series_out[1][<<0, 0>>] = 2

====
